---------------------------- MODULE Spec2Model ----------------------------
(***************************************************************************)
(* Model of the terminal chess program src/chess.cpp: the ChessBoard       *)
(* class (board, capture tallies, geometry, attack detection, simulated    *)
(* moves, game state) and the main loop with the flicker thread.           *)
(***************************************************************************)
EXTENDS Integers, Sequences, FiniteSets, TLC

(***************************************************************************)
(* Piece encoding (enum Piece and the masks), kept as the code has it.     *)
(***************************************************************************)
None == 0
Pawn == 1
Knight == 2
Bishop == 3
Rook == 4
Queen == 5
King == 6
White == 8
Black == 16
whiteMask == 8

\* piece & typeMask (typeMask = 7)
typeOf(p) == p % 8

\* piece & colorMask (colorMask = 24)
colorOf(p) == ((p \div 8) % 4) * 8

Playing == "Playing"
Check == "Check"
Checkmate == "Checkmate"
Stalemate == "Stalemate"

Idx == 0..7

Abs(x) == IF x < 0 THEN 0 - x ELSE x

Max(x, y) == IF x > y THEN x ELSE y

(***************************************************************************)
(* The constructor: setTop, setMiddle, setBottom.                          *)
(***************************************************************************)
backRank == <<Rook, Knight, Bishop, Queen, King, Bishop, Knight, Rook>>

setTop(b) ==
    [b EXCEPT ![1] = [col \in Idx |-> Pawn + Black],
              ![0] = [col \in Idx |-> backRank[col + 1] + Black]]

setMiddle(b) ==
    [row \in Idx |-> IF row >= 2 /\ row < 6 THEN [col \in Idx |-> None] ELSE b[row]]

setBottom(b) ==
    [b EXCEPT ![6] = [col \in Idx |-> Pawn + White],
              ![7] = [col \in Idx |-> backRank[col + 1] + White]]

EmptyBoard == [row \in Idx |-> [col \in Idx |-> None]]

ChessBoard == setBottom(setMiddle(setTop(EmptyBoard)))

noneTaken == [type \in 0..6 |-> 0]

(***************************************************************************)
(* checkFormat: a position text is a sequence of character codes.          *)
(* 'a' = 97, 'h' = 104, '1' = 49, '8' = 56, '0' = 48.                      *)
(***************************************************************************)
checkFormat(pos) ==
    Len(pos) = 2 /\ pos[1] >= 97 /\ pos[1] <= 104 /\ pos[2] >= 49 /\ pos[2] <= 56

formatCol(pos) == pos[1] - 97

formatRow(pos) == 8 - (pos[2] - 48)

checkColor(whitesTurn, piece) == whitesTurn = (colorOf(piece) = whiteMask)

(***************************************************************************)
(* findKing: first King of the color in row-major order, else (-1, -1).    *)
(***************************************************************************)
findKing(b, color) ==
    LET ks == {i \in 0..63 : typeOf(b[i \div 8][i % 8]) = King
                             /\ colorOf(b[i \div 8][i % 8]) = color}
    IN  IF ks = {} THEN <<-1, -1>>
        ELSE LET k == CHOOSE k \in ks : \A j \in ks : k <= j
             IN  <<k \div 8, k % 8>>

(***************************************************************************)
(* isSquareAttacked.                                                       *)
(***************************************************************************)
InBoard(r, c) == r >= 0 /\ r < 8 /\ c >= 0 /\ c < 8

knightMoves == << <<-2,-1>>, <<-2,1>>, <<-1,-2>>, <<-1,2>>,
                  <<1,-2>>, <<1,2>>, <<2,-1>>, <<2,1>> >>

straightDirs == << <<-1,0>>, <<1,0>>, <<0,-1>>, <<0,1>> >>

diagDirs == << <<-1,-1>>, <<-1,1>>, <<1,-1>>, <<1,1>> >>

kingMoves == << <<-1,-1>>, <<-1,0>>, <<-1,1>>, <<0,-1>>,
                <<0,1>>, <<1,-1>>, <<1,0>>, <<1,1>> >>

\* One of the fixed-offset loops: a piece of the kind and color on one of
\* the in-board offset squares.
OffsetAttack(b, r, c, offsets, kind, attackerColor) ==
    \E i \in 1..Len(offsets) :
        LET nr == r + offsets[i][1]
            nc == c + offsets[i][2]
        IN  /\ InBoard(nr, nc)
            /\ typeOf(b[nr][nc]) = kind
            /\ colorOf(b[nr][nc]) = attackerColor

\* The inner dist loop of a sliding direction: the first occupied square
\* of the ray, None when the ray leaves the board first.
RECURSIVE RayFirst(_, _, _, _, _, _)
RayFirst(b, r, c, dr, dc, dist) ==
    IF dist >= 8 THEN None
    ELSE LET nr == r + (dr * dist)
             nc == c + (dc * dist)
         IN  IF ~InBoard(nr, nc) THEN None
             ELSE IF b[nr][nc] # None THEN b[nr][nc]
             ELSE RayFirst(b, r, c, dr, dc, dist + 1)

SlidingAttack(b, r, c, dirs, kinds, attackerColor) ==
    \E i \in 1..Len(dirs) :
        LET p == RayFirst(b, r, c, dirs[i][1], dirs[i][2], 1)
        IN  p # None /\ colorOf(p) = attackerColor /\ typeOf(p) \in kinds

\* Mutant of PawnAttack: the pawn's own forward direction, not inverted.
PawnAttackNotInverted(b, r, c, attackerColor) ==
    LET pawnRowDir == IF attackerColor = White THEN -1 ELSE 1
    IN  OffsetAttack(b, r, c, << <<pawnRowDir, -1>>, <<pawnRowDir, 1>> >>,
                     Pawn, attackerColor)

PawnAttack(b, r, c, attackerColor) ==
    LET pawnRowDir == IF attackerColor = White THEN 1 ELSE -1
    IN  OffsetAttack(b, r, c, << <<pawnRowDir, -1>>, <<pawnRowDir, 1>> >>,
                     Pawn, attackerColor)

isSquareAttacked(b, r, c, attackerColor) ==
    \/ OffsetAttack(b, r, c, knightMoves, Knight, attackerColor)
    \/ SlidingAttack(b, r, c, straightDirs, {Rook, Queen}, attackerColor)
    \/ SlidingAttack(b, r, c, diagDirs, {Bishop, Queen}, attackerColor)
    \/ PawnAttack(b, r, c, attackerColor)
    \/ OffsetAttack(b, r, c, kingMoves, King, attackerColor)

(***************************************************************************)
(* validateGeometry.                                                       *)
(***************************************************************************)
PawnGeometry(b, currR, currC, moveR, moveC) ==
    LET piece == b[currR][currC]
        target == b[moveR][moveC]
        rowDiff == moveR - currR
        colDiff == moveC - currC
        isWhite == (piece \div 8) % 2 = 1
        direction == IF isWhite THEN -1 ELSE 1
        startRow == IF isWhite THEN 6 ELSE 1
    IN  IF colDiff = 0 /\ rowDiff = direction THEN target = None
        ELSE IF /\ colDiff = 0 /\ rowDiff = 2 * direction
                /\ currR = startRow /\ target = None
                /\ b[currR + direction][currC] = None THEN TRUE
        ELSE IF Abs(colDiff) = 1 /\ rowDiff = direction THEN target # None
        ELSE FALSE

SlideGeometry(b, currR, currC, moveR, moveC) ==
    LET type == typeOf(b[currR][currC])
        rowDiff == moveR - currR
        colDiff == moveC - currC
        absRow == Abs(rowDiff)
        absCol == Abs(colDiff)
        isStraight == (currR = moveR \/ currC = moveC)
        isDiagonal == (absRow = absCol)
        rowStep == IF rowDiff = 0 THEN 0 ELSE IF rowDiff > 0 THEN 1 ELSE -1
        colStep == IF colDiff = 0 THEN 0 ELSE IF colDiff > 0 THEN 1 ELSE -1
        steps == Max(absRow, absCol)
    IN  IF type = Rook /\ ~isStraight THEN FALSE
        ELSE IF type = Bishop /\ ~isDiagonal THEN FALSE
        ELSE IF type = Queen /\ ~isStraight /\ ~isDiagonal THEN FALSE
        ELSE \A i \in 1..(steps - 1) :
                 b[currR + (i * rowStep)][currC + (i * colStep)] = None

validateGeometry(b, currR, currC, moveR, moveC) ==
    LET piece == b[currR][currC]
        target == b[moveR][moveC]
        absRow == Abs(moveR - currR)
        absCol == Abs(moveC - currC)
    IN  IF piece = None THEN FALSE
        ELSE IF target # None /\ colorOf(piece) = colorOf(target) THEN FALSE
        ELSE CASE typeOf(piece) = Pawn -> PawnGeometry(b, currR, currC, moveR, moveC)
               [] typeOf(piece) = Knight ->
                      (absRow = 2 /\ absCol = 1) \/ (absRow = 1 /\ absCol = 2)
               [] typeOf(piece) = King -> absRow <= 1 /\ absCol <= 1
               [] typeOf(piece) \in {Rook, Bishop, Queen} ->
                      SlideGeometry(b, currR, currC, moveR, moveC)
               [] OTHER -> FALSE

(***************************************************************************)
(* isSafeMove: simulate, test the mover's King, undo.                      *)
(***************************************************************************)
\* Step 2: the two assignments that apply the move in place.
SimulateMove(b, currR, currC, moveR, moveC) ==
    LET b1 == [b EXCEPT ![moveR][moveC] = b[currR][currC]]
    IN  [b1 EXCEPT ![currR][currC] = None]

\* Mutant of InCheckAfter: the test of the mover's King is left out.
InCheckAfterNever(b, myColor) == FALSE

\* Step 3 on the simulated board.
InCheckAfter(b, myColor) ==
    LET enemyColor == IF myColor = White THEN Black ELSE White
        k == findKing(b, myColor)
    IN  isSquareAttacked(b, k[1], k[2], enemyColor)

\* Mutant of UndoMove: only the source cell is put back.
UndoMoveSourceOnly(b, currR, currC, moveR, moveC, originalSource, originalDest) ==
    [b EXCEPT ![currR][currC] = originalSource]

\* Mutant of UndoMove: only the destination cell is put back.
UndoMoveDestOnly(b, currR, currC, moveR, moveC, originalSource, originalDest) ==
    [b EXCEPT ![moveR][moveC] = originalDest]

\* Step 4: the two assignments that put the saved cells back.
UndoMove(b, currR, currC, moveR, moveC, originalSource, originalDest) ==
    LET b1 == [b EXCEPT ![currR][currC] = originalSource]
    IN  [b1 EXCEPT ![moveR][moveC] = originalDest]

\* Mutant of isSafeMove: the King is located before the move is simulated.
isSafeMoveStaleKing(b, currR, currC, moveR, moveC) ==
    IF ~validateGeometry(b, currR, currC, moveR, moveC)
    THEN [safe |-> FALSE, board |-> b]
    ELSE LET myColor == colorOf(b[currR][currC])
             k == findKing(b, myColor)
             sim == SimulateMove(b, currR, currC, moveR, moveC)
         IN  [safe |-> ~isSquareAttacked(sim, k[1], k[2],
                                         IF myColor = White THEN Black ELSE White),
              board |-> b]

\* The returned bool and the board the call leaves behind.
isSafeMove(b, currR, currC, moveR, moveC) ==
    IF ~validateGeometry(b, currR, currC, moveR, moveC)
    THEN [safe |-> FALSE, board |-> b]
    ELSE LET originalSource == b[currR][currC]
             originalDest == b[moveR][moveC]
             sim == SimulateMove(b, currR, currC, moveR, moveC)
             inCheck == InCheckAfter(sim, colorOf(originalSource))
         IN  [safe |-> ~inCheck,
              board |-> UndoMove(sim, currR, currC, moveR, moveC,
                                 originalSource, originalDest)]

(***************************************************************************)
(* hasAnyLegalMoves: the four nested loops, the board threaded through     *)
(* every isSafeMove call in loop order, returning at the first safe move.  *)
(* A loop over lo..hi-1 is evaluated as its first half followed, when      *)
(* that half did not return, by its second half on the board it left.      *)
(***************************************************************************)
\* The tr/tc loops for the piece on (r, c): targets lo..hi-1, numbered
\* tr * 8 + tc.
RECURSIVE TryTargets(_, _, _, _, _)
TryTargets(b, r, c, lo, hi) ==
    IF hi - lo = 1
    THEN LET res == isSafeMove(b, r, c, lo \div 8, lo % 8)
         IN  [found |-> res.safe, board |-> res.board]
    ELSE LET mid == (lo + hi) \div 2
             first == TryTargets(b, r, c, lo, mid)
         IN  IF first.found THEN first
             ELSE TryTargets(first.board, r, c, mid, hi)

\* The r/c loops: squares lo..hi-1, numbered r * 8 + c.
RECURSIVE ScanPieces(_, _, _, _)
ScanPieces(b, color, lo, hi) ==
    IF hi - lo = 1
    THEN IF colorOf(b[lo \div 8][lo % 8]) = color
         THEN TryTargets(b, lo \div 8, lo % 8, 0, 64)
         ELSE [found |-> FALSE, board |-> b]
    ELSE LET mid == (lo + hi) \div 2
             first == ScanPieces(b, color, lo, mid)
         IN  IF first.found THEN first
             ELSE ScanPieces(first.board, color, mid, hi)

hasAnyLegalMoves(b, color) == ScanPieces(b, color, 0, 64)

(***************************************************************************)
(* getGameState: the state and the board the call leaves behind.           *)
(***************************************************************************)
\* Mutant of getGameState: the two results without moves are exchanged.
getGameStateExchanged(b, playerColor) ==
    LET enemyColor == IF playerColor = White THEN Black ELSE White
        k == findKing(b, playerColor)
        inCheck == isSquareAttacked(b, k[1], k[2], enemyColor)
        moves == hasAnyLegalMoves(b, playerColor)
    IN  [state |-> IF inCheck /\ ~moves.found THEN Stalemate
                   ELSE IF inCheck THEN Check
                   ELSE IF ~moves.found THEN Checkmate
                   ELSE Playing,
         board |-> moves.board]

getGameState(b, playerColor) ==
    LET enemyColor == IF playerColor = White THEN Black ELSE White
        k == findKing(b, playerColor)
        inCheck == isSquareAttacked(b, k[1], k[2], enemyColor)
        moves == hasAnyLegalMoves(b, playerColor)
        hasMoves == moves.found
    IN  [state |-> IF inCheck /\ ~hasMoves THEN Checkmate
                   ELSE IF inCheck THEN Check
                   ELSE IF ~hasMoves THEN Stalemate
                   ELSE Playing,
         board |-> moves.board]

(***************************************************************************)
(* State.  board and the two tallies are the fields of ChessBoard;         *)
(* isRunning and isWhitesTurn are main's locals; pc is the place of the    *)
(* main thread; frame holds the locals of the makeMove call in progress;   *)
(* keepFlickering, flickerPc and highlight are the flicker thread.         *)
(* last, plies, fixture, sawSimulated and q record what happened, for the  *)
(* properties below; no action reads them except to bound the run.         *)
(***************************************************************************)
VARIABLES board, whitesTakenPieces, blacksTakenPieces,
          isRunning, isWhitesTurn, pc, frame,
          keepFlickering, flickerPc, highlight,
          last, plies, fixture, sawSimulated, q

vars == <<board, whitesTakenPieces, blacksTakenPieces, isRunning, isWhitesTurn,
          pc, frame, keepFlickering, flickerPc, highlight,
          last, plies, fixture, sawSimulated, q>>

tallies == <<whitesTakenPieces, blacksTakenPieces>>

threadVars == <<frame, keepFlickering, flickerPc, highlight, sawSimulated>>

noFrame == [currR |-> -1, currC |-> -1, moveR |-> -1, moveC |-> -1,
            pos2 |-> <<>>, originalSource |-> None, originalDest |-> None]

noLast == [outcome |-> "none", parsed |-> FALSE, owned |-> FALSE, prompted |-> FALSE,
           geometry |-> FALSE, unchanged |-> TRUE, captured |-> None,
           state |-> "none", mover |-> None]

noQuery == [kind |-> "none"]

\* The text of square (r, c): the inverse of checkFormat.
Text(r, c) == <<97 + c, 48 + (8 - r)>>

(***************************************************************************)
(* Calls of the engine's functions on boards drawn from a bounded set.     *)
(***************************************************************************)
MaxExtraPieces == 2

whiteKingSquare == <<7, 4>>

blackKingSquare == <<0, 4>>

\* e2 e4 f2 g3
ExtraSquares == {<<6, 4>>, <<4, 4>>, <<6, 5>>, <<5, 6>>}

ExtraPieces == {Pawn + White, Knight + White, Rook + White,
                Pawn + Black, Bishop + Black, Queen + Black}

\* The board with the pieces of a placement (a function from squares to
\* pieces) put on the empty board.
Place(placement) ==
    [row \in Idx |-> [col \in Idx |->
        IF <<row, col>> \in DOMAIN placement THEN placement[<<row, col>>] ELSE None]]

\* Every way to put at most n of the pieces on the squares.
Placements(squares, pieces, n) ==
    UNION {[sub -> pieces] : sub \in {x \in SUBSET squares : Cardinality(x) <= n}}

bothKings == (whiteKingSquare :> (King + White)) @@ (blackKingSquare :> (King + Black))

\* Both Kings and up to MaxExtraPieces more pieces, or one King missing and
\* at most one more piece.
QueryBoards ==
    { Place(bothKings @@ extra) :
        extra \in Placements(ExtraSquares, ExtraPieces, MaxExtraPieces) }
    \cup
    { Place(king @@ extra) :
        king \in { (whiteKingSquare :> (King + White)),
                   (blackKingSquare :> (King + Black)) },
        extra \in Placements(ExtraSquares, ExtraPieces, 1) }

HasKing(b, color) == findKing(b, color) # <<-1, -1>>

InitCalls(boards) ==
    /\ board \in boards
    /\ whitesTakenPieces = noneTaken
    /\ blacksTakenPieces = noneTaken
    /\ isRunning = TRUE
    /\ isWhitesTurn = TRUE
    /\ pc = "query"
    /\ frame = noFrame
    /\ keepFlickering = FALSE
    /\ flickerPc = "none"
    /\ highlight = FALSE
    /\ last = noLast
    /\ plies = 0
    /\ fixture = 0
    /\ sawSimulated = FALSE
    /\ q = noQuery

InitQuery == InitCalls(QueryBoards)

notBoard == <<whitesTakenPieces, blacksTakenPieces, isRunning, isWhitesTurn, pc,
              frame, keepFlickering, flickerPc, highlight, last, plies, fixture,
              sawSimulated>>

\* One call isSafeMove(currR, currC, moveR, moveC) on a square holding a piece.
QuerySafe(currR, currC, moveR, moveC) ==
    /\ pc = "query"
    /\ q.kind = "none"
    /\ board[currR][currC] # None
    /\ LET res == isSafeMove(board, currR, currC, moveR, moveC)
       IN  /\ board' = res.board
           /\ q' = [kind |-> "isSafe", before |-> board,
                    src |-> <<currR, currC>>, dst |-> <<moveR, moveC>>,
                    mover |-> colorOf(board[currR][currC]),
                    safe |-> res.safe]
    /\ UNCHANGED notBoard

\* One call getGameState(playerColor), the first on this board or the one
\* that directly follows a first call for the same color.
QueryState(playerColor) ==
    /\ pc = "query"
    /\ \/ q.kind = "none"
       \/ q.kind = "state" /\ q.color = playerColor /\ q.prev = "none"
    /\ LET res == getGameState(board, playerColor)
       IN  /\ board' = res.board
           /\ q' = [kind |-> "state", before |-> board, color |-> playerColor,
                    state |-> res.state,
                    prev |-> IF q.kind = "state" THEN q.state ELSE "none"]
    /\ UNCHANGED notBoard

\* One call isSquareAttacked(r, c, attackerColor).
QueryAttack(r, c, attackerColor) ==
    /\ pc = "query"
    /\ q.kind = "none"
    /\ board[r][c] # None
    /\ q' = [kind |-> "attack", before |-> board, target |-> <<r, c>>,
             color |-> attackerColor,
             attacked |-> isSquareAttacked(board, r, c, attackerColor)]
    /\ UNCHANGED board
    /\ UNCHANGED notBoard

SafeCalls ==
    /\ q.kind = "none"
    /\ \E currR \in Idx, currC \in Idx, moveR \in Idx, moveC \in Idx :
           QuerySafe(currR, currC, moveR, moveC)

StateCalls == \E playerColor \in {White, Black} : QueryState(playerColor)

NextQuery == SafeCalls \/ StateCalls

SpecQuery == InitQuery /\ [][NextQuery]_vars

(***************************************************************************)
(* Calls of isSquareAttacked on boards with both Kings and up to           *)
(* MaxAttackPieces more pieces of any kind and color.                      *)
(***************************************************************************)
MaxAttackPieces == 2

\* e2 e4 f2 g3 d7 e7
AttackSquares == {<<6, 4>>, <<4, 4>>, <<6, 5>>, <<5, 6>>, <<1, 3>>, <<1, 4>>}

AttackPieces == {kind + color : kind \in {Pawn, Knight, Bishop, Rook, Queen},
                                color \in {White, Black}}

AttackBoards ==
    { Place(bothKings @@ extra) :
        extra \in Placements(AttackSquares, AttackPieces, MaxAttackPieces) }

InitAttack == InitCalls(AttackBoards)

AttackCalls ==
    /\ q.kind = "none"
    /\ \E r \in Idx, c \in Idx, attackerColor \in {White, Black} :
           QueryAttack(r, c, attackerColor)

SpecAttack == InitAttack /\ [][AttackCalls]_vars

(***************************************************************************)
(* The game: main's loop around makeMove, one action per pass of           *)
(* makeMove's outer loop (a source text, then a destination text).         *)
(***************************************************************************)
MaxPlies == 5

\* The texts the players type: squares and texts that are no square.
\* f2 f3 e7 e5 g2 g4 d8 h4 e2 e4 e1 f7 f5 d1 h5 e8
InputSquares ==
    { Text(6, 5), Text(5, 5), Text(1, 4), Text(3, 4), Text(6, 6), Text(4, 6),
      Text(0, 3), Text(4, 7), Text(6, 4), Text(4, 4), Text(7, 4), Text(1, 5),
      Text(3, 5), Text(7, 3), Text(3, 7), Text(0, 4) }

\* "x", "X", "e9", "i1", "e22"
OtherTexts == { <<120>>, <<88>>, <<101, 57>>, <<105, 49>>, <<101, 50, 50>> }

InputTexts == InputSquares \cup OtherTexts

\* White f2-f3, Black e7-e5, White g2-g4, Black d8-h4.
FoolsMate == << <<Text(6, 5), Text(5, 5)>>, <<Text(1, 4), Text(3, 4)>>,
                <<Text(6, 6), Text(4, 6)>>, <<Text(0, 3), Text(4, 7)>> >>

Init ==
    /\ board = ChessBoard
    /\ whitesTakenPieces = noneTaken
    /\ blacksTakenPieces = noneTaken
    /\ isRunning = TRUE
    /\ isWhitesTurn = TRUE
    /\ pc = "makeMove"
    /\ frame = noFrame
    /\ keepFlickering = FALSE
    /\ flickerPc = "none"
    /\ highlight = FALSE
    /\ last = noLast
    /\ plies = 0
    /\ fixture = 0
    /\ sawSimulated = FALSE
    /\ q = noQuery

movingColor == IF isWhitesTurn THEN White ELSE Black

\* The condition of the inner loop's break on the source text.
Selectable(pos1) ==
    checkFormat(pos1) /\ checkColor(isWhitesTurn, board[formatRow(pos1)][formatCol(pos1)])

\* What the attempt is recorded with: whether the source text named a
\* square, and whether that square held a piece of the side to move.
Attempt(pos1) ==
    [noLast EXCEPT !.parsed = checkFormat(pos1),
                   !.owned = checkFormat(pos1)
                             /\ colorOf(board[formatRow(pos1)][formatCol(pos1)]) = movingColor,
                   !.mover = movingColor]

\* The capture logic: the mover's tally of the captured kind, a uint8.
CaptureTally(taken, target) ==
    IF target # None
    THEN [taken EXCEPT ![typeOf(target)] = (@ + 1) % 256]
    ELSE taken

\* The commit: the two assignments of the accepted move.
CommitMove(b, currR, currC, moveR, moveC) ==
    LET b1 == [b EXCEPT ![moveR][moveC] = b[currR][currC]]
    IN  [b1 EXCEPT ![currR][currC] = None]

\* "Invalid selection. Try again": the source text is re-read.
SelectInvalid(pos1) ==
    /\ pc = "makeMove"
    /\ ~Selectable(pos1)
    /\ last' = [Attempt(pos1) EXCEPT
                   !.outcome = IF checkFormat(pos1) THEN "WrongColor" ELSE "FormatError"]
    /\ UNCHANGED <<board, tallies, isRunning, isWhitesTurn, pc, threadVars,
                   plies, fixture, q>>

\* The destination text is "x" or "X".
Cancel(pos1, pos2) ==
    /\ pc = "makeMove"
    /\ Selectable(pos1)
    /\ pos2 \in {<<120>>, <<88>>}
    /\ last' = [Attempt(pos1) EXCEPT !.outcome = "Cancel", !.prompted = TRUE]
    /\ UNCHANGED <<board, tallies, isRunning, isWhitesTurn, pc, threadVars,
                   plies, fixture, q>>

\* "Invalid format!" on the destination text.
DestFormatError(pos1, pos2) ==
    /\ pc = "makeMove"
    /\ Selectable(pos1)
    /\ pos2 \notin {<<120>>, <<88>>}
    /\ ~checkFormat(pos2)
    /\ last' = [Attempt(pos1) EXCEPT !.outcome = "FormatError", !.prompted = TRUE]
    /\ UNCHANGED <<board, tallies, isRunning, isWhitesTurn, pc, threadVars,
                   plies, fixture, q>>

\* "Illegal Move!": isSafeMove returned false.
IllegalMove(pos1, pos2) ==
    /\ pc = "makeMove"
    /\ Selectable(pos1)
    /\ checkFormat(pos2)
    /\ LET currR == formatRow(pos1)
           currC == formatCol(pos1)
           moveR == formatRow(pos2)
           moveC == formatCol(pos2)
           res == isSafeMove(board, currR, currC, moveR, moveC)
       IN  /\ ~res.safe
           /\ board' = res.board
           /\ last' = [Attempt(pos1) EXCEPT
                          !.outcome = "IllegalMove", !.prompted = TRUE,
                          !.geometry = validateGeometry(board, currR, currC, moveR, moveC),
                          !.unchanged = (res.board = board)]
    /\ UNCHANGED <<tallies, isRunning, isWhitesTurn, pc, threadVars, plies, fixture, q>>

\* isSafeMove returned true: capture logic, commit, end of turn check, return.
AcceptMove(pos1, pos2) ==
    /\ pc = "makeMove"
    /\ plies < MaxPlies
    /\ Selectable(pos1)
    /\ checkFormat(pos2)
    /\ LET currR == formatRow(pos1)
           currC == formatCol(pos1)
           moveR == formatRow(pos2)
           moveC == formatCol(pos2)
           res == isSafeMove(board, currR, currC, moveR, moveC)
           target == res.board[moveR][moveC]
           opponentColor == IF isWhitesTurn THEN Black ELSE White
           gs == getGameState(CommitMove(res.board, currR, currC, moveR, moveC),
                              opponentColor)
       IN  /\ res.safe
           /\ whitesTakenPieces' = IF isWhitesTurn
                                   THEN CaptureTally(whitesTakenPieces, target)
                                   ELSE whitesTakenPieces
           /\ blacksTakenPieces' = IF isWhitesTurn
                                   THEN blacksTakenPieces
                                   ELSE CaptureTally(blacksTakenPieces, target)
           /\ board' = gs.board
           /\ isRunning' = IF gs.state \in {Checkmate, Stalemate} THEN FALSE
                           ELSE isRunning
           /\ last' = [Attempt(pos1) EXCEPT
                          !.outcome = "Applied", !.prompted = TRUE, !.geometry = TRUE,
                          !.unchanged = FALSE, !.captured = typeOf(target),
                          !.state = gs.state]
           /\ fixture' = IF /\ fixture >= 0 /\ fixture < Len(FoolsMate)
                            /\ <<pos1, pos2>> = FoolsMate[fixture + 1]
                         THEN fixture + 1 ELSE -1
    /\ pc' = "main"
    /\ plies' = plies + 1
    /\ UNCHANGED <<isWhitesTurn, threadVars, q>>

\* Mutant of MainLoop: the loop condition is not read.
MainLoopForever ==
    /\ pc = "main"
    /\ isWhitesTurn' = ~isWhitesTurn
    /\ pc' = "makeMove"
    /\ UNCHANGED <<board, tallies, isRunning, threadVars, last, plies, fixture, q>>

\* main: makeMove returned; the turn changes and the loop condition is read.
MainLoop ==
    /\ pc = "main"
    /\ isWhitesTurn' = ~isWhitesTurn
    /\ pc' = IF isRunning THEN "makeMove" ELSE "exit"
    /\ UNCHANGED <<board, tallies, isRunning, threadVars, last, plies, fixture, q>>

Next ==
    \/ \E pos1 \in InputTexts : SelectInvalid(pos1)
    \/ \E pos1 \in InputSquares, pos2 \in InputTexts : Cancel(pos1, pos2)
    \/ \E pos1 \in InputSquares, pos2 \in InputTexts : DestFormatError(pos1, pos2)
    \/ \E pos1 \in InputSquares, pos2 \in InputTexts : IllegalMove(pos1, pos2)
    \/ \E pos1 \in InputSquares, pos2 \in InputTexts : AcceptMove(pos1, pos2)
    \/ MainLoop

Spec == Init /\ [][Next]_vars

(***************************************************************************)
(* The same program step by step, with the flicker thread: the main        *)
(* thread's places in makeMove are "makeMove" (reading the source text),   *)
(* "readDst" (std::cin >> pos2 with the thread running), "stop", "join",   *)
(* "dispatch", "simulated" (inside isSafeMove, between steps 2 and 4),     *)
(* "commit" and "endTurn".  The thread is at "test" (its while             *)
(* condition), "render", "sleep" or "exited"; "none" when no thread        *)
(* exists.                                                                 *)
(***************************************************************************)
MaxTurns == 2

\* f2 f3 e7 e5 g2 g4 and "x", "e9"
ThreadSquares == { Text(6, 5), Text(5, 5), Text(1, 4), Text(3, 4),
                   Text(6, 6), Text(4, 6) }

ThreadTexts == ThreadSquares \cup { <<120>>, <<101, 57>> }

FlickerAlive == flickerPc # "none"

T_SelectInvalid(pos1) ==
    /\ pc = "makeMove"
    /\ plies < MaxTurns
    /\ ~Selectable(pos1)
    /\ last' = [noLast EXCEPT
                   !.outcome = IF checkFormat(pos1) THEN "WrongColor" ELSE "FormatError"]
    /\ UNCHANGED <<board, tallies, isRunning, isWhitesTurn, pc, threadVars,
                   plies, fixture, q>>

\* The source text is accepted and the flicker thread is constructed.
T_Select(pos1) ==
    /\ pc = "makeMove"
    /\ plies < MaxTurns
    /\ Selectable(pos1)
    /\ frame' = [noFrame EXCEPT !.currR = formatRow(pos1), !.currC = formatCol(pos1)]
    /\ keepFlickering' = TRUE
    /\ flickerPc' = "test"
    /\ highlight' = FALSE
    /\ pc' = "readDst"
    /\ UNCHANGED <<board, tallies, isRunning, isWhitesTurn, last, plies, fixture,
                   sawSimulated, q>>

\* std::cin >> pos2
T_ReadDst(pos2) ==
    /\ pc = "readDst"
    /\ frame' = [frame EXCEPT !.pos2 = pos2]
    /\ pc' = "stop"
    /\ UNCHANGED <<board, tallies, isRunning, isWhitesTurn, keepFlickering, flickerPc,
                   highlight, last, plies, fixture, sawSimulated, q>>

\* keepFlickering = false
T_Stop ==
    /\ pc = "stop"
    /\ keepFlickering' = FALSE
    /\ pc' = "join"
    /\ UNCHANGED <<board, tallies, isRunning, isWhitesTurn, frame, flickerPc,
                   highlight, last, plies, fixture, sawSimulated, q>>

\* Mutant of T_Join: the main thread goes on without joining.
T_JoinNoWait ==
    /\ pc = "join"
    /\ pc' = "dispatch"
    /\ UNCHANGED <<board, tallies, isRunning, isWhitesTurn, frame, keepFlickering,
                   flickerPc, highlight, last, plies, fixture, sawSimulated, q>>

\* flickerThread.join() returns when the thread has left its loop.
T_Join ==
    /\ pc = "join"
    /\ flickerPc = "exited"
    /\ flickerPc' = "none"
    /\ pc' = "dispatch"
    /\ UNCHANGED <<board, tallies, isRunning, isWhitesTurn, frame, keepFlickering,
                   highlight, last, plies, fixture, sawSimulated, q>>

T_Cancel ==
    /\ pc = "dispatch"
    /\ frame.pos2 \in {<<120>>, <<88>>}
    /\ last' = [noLast EXCEPT !.outcome = "Cancel"]
    /\ pc' = "makeMove"
    /\ UNCHANGED <<board, tallies, isRunning, isWhitesTurn, threadVars,
                   plies, fixture, q>>

T_DestFormatError ==
    /\ pc = "dispatch"
    /\ frame.pos2 \notin {<<120>>, <<88>>}
    /\ ~checkFormat(frame.pos2)
    /\ last' = [noLast EXCEPT !.outcome = "FormatError"]
    /\ pc' = "makeMove"
    /\ UNCHANGED <<board, tallies, isRunning, isWhitesTurn, threadVars,
                   plies, fixture, q>>

\* isSafeMove step 1 fails: "Illegal Move!".
T_GeometryFails ==
    /\ pc = "dispatch"
    /\ checkFormat(frame.pos2)
    /\ ~validateGeometry(board, frame.currR, frame.currC,
                         formatRow(frame.pos2), formatCol(frame.pos2))
    /\ last' = [noLast EXCEPT !.outcome = "IllegalMove"]
    /\ pc' = "makeMove"
    /\ UNCHANGED <<board, tallies, isRunning, isWhitesTurn, threadVars,
                   plies, fixture, q>>

\* isSafeMove steps 1 and 2: the move is applied in place.
T_Simulate ==
    /\ pc = "dispatch"
    /\ checkFormat(frame.pos2)
    /\ LET moveR == formatRow(frame.pos2)
           moveC == formatCol(frame.pos2)
       IN  /\ validateGeometry(board, frame.currR, frame.currC, moveR, moveC)
           /\ frame' = [frame EXCEPT !.moveR = moveR, !.moveC = moveC,
                                     !.originalSource = board[frame.currR][frame.currC],
                                     !.originalDest = board[moveR][moveC]]
           /\ board' = SimulateMove(board, frame.currR, frame.currC, moveR, moveC)
    /\ pc' = "simulated"
    /\ UNCHANGED <<tallies, isRunning, isWhitesTurn, keepFlickering, flickerPc,
                   highlight, last, plies, fixture, sawSimulated, q>>

\* isSafeMove steps 3 and 4, and the branch on its result.
T_Undo ==
    /\ pc = "simulated"
    /\ LET inCheck == InCheckAfter(board, colorOf(frame.originalSource))
       IN  /\ board' = UndoMove(board, frame.currR, frame.currC, frame.moveR,
                                frame.moveC, frame.originalSource, frame.originalDest)
           /\ pc' = IF inCheck THEN "makeMove" ELSE "commit"
           /\ last' = IF inCheck THEN [noLast EXCEPT !.outcome = "IllegalMove",
                                                     !.geometry = TRUE]
                      ELSE last
    /\ UNCHANGED <<tallies, isRunning, isWhitesTurn, threadVars, plies, fixture, q>>

\* Capture logic and commit.
T_Commit ==
    /\ pc = "commit"
    /\ LET target == board[frame.moveR][frame.moveC]
       IN  /\ whitesTakenPieces' = IF isWhitesTurn
                                   THEN CaptureTally(whitesTakenPieces, target)
                                   ELSE whitesTakenPieces
           /\ blacksTakenPieces' = IF isWhitesTurn
                                   THEN blacksTakenPieces
                                   ELSE CaptureTally(blacksTakenPieces, target)
    /\ board' = CommitMove(board, frame.currR, frame.currC, frame.moveR, frame.moveC)
    /\ pc' = "endTurn"
    /\ UNCHANGED <<isRunning, isWhitesTurn, threadVars, last, plies, fixture, q>>

\* End of turn check and return to main.
T_EndTurn ==
    /\ pc = "endTurn"
    /\ LET gs == getGameState(board, IF isWhitesTurn THEN Black ELSE White)
       IN  /\ board' = gs.board
           /\ isRunning' = IF gs.state \in {Checkmate, Stalemate} THEN FALSE
                           ELSE isRunning
           /\ last' = [noLast EXCEPT !.outcome = "Applied", !.state = gs.state]
    /\ pc' = "main"
    /\ plies' = plies + 1
    /\ UNCHANGED <<tallies, isWhitesTurn, threadVars, fixture, q>>

\* The thread's while (keepFlickering).
F_Test ==
    /\ flickerPc = "test"
    /\ flickerPc' = IF keepFlickering THEN "render" ELSE "exited"
    /\ UNCHANGED <<board, tallies, isRunning, isWhitesTurn, pc, frame, keepFlickering,
                   highlight, last, plies, fixture, sawSimulated, q>>

\* this->render(currR, currC, highlight) reads the board; highlight = !highlight.
F_Render ==
    /\ flickerPc = "render"
    /\ sawSimulated' = (sawSimulated \/ pc = "simulated")
    /\ highlight' = ~highlight
    /\ flickerPc' = "sleep"
    /\ UNCHANGED <<board, tallies, isRunning, isWhitesTurn, pc, frame, keepFlickering,
                   last, plies, fixture, q>>

\* sleep_for(400ms) ends.
F_Wake ==
    /\ flickerPc = "sleep"
    /\ flickerPc' = "test"
    /\ UNCHANGED <<board, tallies, isRunning, isWhitesTurn, pc, frame, keepFlickering,
                   highlight, last, plies, fixture, sawSimulated, q>>

NextThreads ==
    \/ \E pos1 \in ThreadTexts : T_SelectInvalid(pos1)
    \/ \E pos1 \in ThreadTexts : T_Select(pos1)
    \/ \E pos2 \in ThreadTexts : T_ReadDst(pos2)
    \/ T_Stop
    \/ T_Join
    \/ T_Cancel
    \/ T_DestFormatError
    \/ T_GeometryFails
    \/ T_Simulate
    \/ T_Undo
    \/ T_Commit
    \/ T_EndTurn
    \/ MainLoop
    \/ F_Test
    \/ F_Render
    \/ F_Wake

SpecThreads == Init /\ [][NextThreads]_vars

\* C4: the render thread never reads the board while a simulated move is
\* applied and not yet restored: the thread exists only while the main
\* thread is at the destination input or stopping and joining it, so it has
\* been joined before isSafeMove, the commit and getGameState run.
C4_RenderNeverSeesSimulation ==
    /\ FlickerAlive => pc \in {"readDst", "stop", "join"}
    /\ ~sawSimulated

\* C4 witness: the thread rendered while the main thread waited, was joined,
\* and the main thread is now inside isSafeMove with the move applied.
C4_Witness ==
    pc = "simulated" /\ highlight /\ ~FlickerAlive

(***************************************************************************)
(* Properties of the game (specification Spec).                            *)
(***************************************************************************)
KingCount(b, color) ==
    Cardinality({sq \in Idx \X Idx : b[sq[1]][sq[2]] = King + color})

\* C1: a rejected move attempt (IllegalMove because geometry fails or
\* because the mover's King would be attacked, or FormatError on a text)
\* leaves all 64 cells of the board and both capture tallies as they were
\* before the attempt.
C1_RejectedLeavesBoard ==
    last.outcome \in {"IllegalMove", "FormatError"} => last.unchanged

\* C1 witness: a move whose geometry is valid was simulated, found to leave
\* the mover's King attacked, and rejected.
C1_Witness ==
    last.outcome = "IllegalMove" /\ last.geometry /\ last.unchanged

\* C2 as claimed: for both colors, an attempt whose source square does not
\* hold a piece of the moving color (an opponent piece or empty) is rejected
\* with WrongColor before any destination prompt, the board unchanged.
C2_WrongColorAtOwnershipCheck ==
    (last.outcome # "none" /\ last.parsed /\ ~last.owned) =>
        (last.outcome = "WrongColor" /\ ~last.prompted /\ last.unchanged)

\* C3: after the accepted moves White f2-f3, Black e7-e5, White g2-g4,
\* Black d8-h4 from the initial position, the resolved state of White is
\* Checkmate and the game stops running.
C3_FoolsMate ==
    fixture = Len(FoolsMate) =>
        /\ last.outcome = "Applied"
        /\ last.mover = Black
        /\ last.state = Checkmate
        /\ ~isRunning
        /\ pc \in {"main", "exit"}

\* C3 witness: the four moves were accepted one by one and main left its loop.
C3_Witness ==
    fixture = Len(FoolsMate) /\ plies = Len(FoolsMate) /\ pc = "exit"

C6_OneKingEach ==
    /\ KingCount(board, White) = 1
    /\ KingCount(board, Black) = 1
    /\ last.captured # King

\* C6 witness: an accepted move captured a piece, both Kings still there.
C6_Witness ==
    /\ last.outcome = "Applied"
    /\ last.captured \notin {None, King}
    /\ KingCount(board, White) = 1
    /\ KingCount(board, Black) = 1

(***************************************************************************)
(* Properties of the engine's functions (SpecQuery and SpecAttack).         *)
(***************************************************************************)
OtherColor(color) == IF color = White THEN Black ELSE White

Squares == Idx \X Idx

BothKings(b) == KingCount(b, White) = 1 /\ KingCount(b, Black) = 1

\* The board a move yields, written cell by cell.
MoveApplied(b, src, dst) ==
    [row \in Idx |-> [col \in Idx |->
        IF <<row, col>> = dst THEN b[src[1]][src[2]]
        ELSE IF <<row, col>> = src THEN None
        ELSE b[row][col]]]

\* Where the mover's King stands once the move is applied.
KingSquareAfter(b, src, dst) ==
    LET mover == colorOf(b[src[1]][src[2]])
    IN  IF b[src[1]][src[2]] = King + mover THEN dst
        ELSE CHOOSE sq \in Squares : b[sq[1]][sq[2]] = King + mover

KingAttackedAfter(b, src, dst) ==
    LET ks == KingSquareAfter(b, src, dst)
    IN  isSquareAttacked(MoveApplied(b, src, dst), ks[1], ks[2],
                         OtherColor(colorOf(b[src[1]][src[2]])))

C8_SafeIffGeometryAndKingSafe ==
    (q.kind = "isSafe" /\ BothKings(q.before)) =>
        /\ q.safe = (/\ validateGeometry(q.before, q.src[1], q.src[2],
                                         q.dst[1], q.dst[2])
                     /\ ~KingAttackedAfter(q.before, q.src, q.dst))
        /\ q.safe =>
              LET after == CommitMove(q.before, q.src[1], q.src[2], q.dst[1], q.dst[2])
                  k == findKing(after, q.mover)
              IN  ~isSquareAttacked(after, k[1], k[2], OtherColor(q.mover))

\* C8 witness: a pinned piece: the mover's King is not attacked, the piece
\* is no King, geometry accepts its move and isSafeMove rejects it.
C8_Witness ==
    /\ q.kind = "isSafe"
    /\ BothKings(q.before)
    /\ ~q.safe
    /\ validateGeometry(q.before, q.src[1], q.src[2], q.dst[1], q.dst[2])
    /\ typeOf(q.before[q.src[1]][q.src[2]]) # King
    /\ LET k == findKing(q.before, q.mover)
       IN  ~isSquareAttacked(q.before, k[1], k[2], OtherColor(q.mover))

\* C9: getGameState leaves every cell of the board and both tallies as they
\* were, and a second call for the same color with no move in between
\* returns the same GameState.
C9_QueryStateIdempotent ==
    q.kind = "state" =>
        /\ board = q.before
        /\ tallies = <<noneTaken, noneTaken>>
        /\ q.prev # "none" => q.prev = q.state

\* C9 witness: two calls in a row on a board where every candidate move of
\* the color was tried, some simulated and restored, none safe.
C9_Witness ==
    /\ q.kind = "state"
    /\ q.prev = Checkmate
    /\ q.state = Checkmate

\* C10: for a target square holding a piece of the color opposite to C,
\* isSquareAttacked(target, C) is true exactly when some square holds a
\* piece of color C whose validateGeometry to the target is true.
C10_AttackIffCaptureGeometry ==
    (q.kind = "attack"
     /\ colorOf(q.before[q.target[1]][q.target[2]]) = OtherColor(q.color)) =>
        q.attacked =
            (\E sq \in Squares :
                /\ colorOf(q.before[sq[1]][sq[2]]) = q.color
                /\ validateGeometry(q.before, sq[1], sq[2], q.target[1], q.target[2]))

\* C10 witness: the target is attacked, and only by a pawn.
C10_Witness ==
    /\ q.kind = "attack"
    /\ colorOf(q.before[q.target[1]][q.target[2]]) = OtherColor(q.color)
    /\ q.attacked
    /\ \A sq \in Squares :
          (/\ colorOf(q.before[sq[1]][sq[2]]) = q.color
           /\ validateGeometry(q.before, sq[1], sq[2], q.target[1], q.target[2]))
          => typeOf(q.before[sq[1]][sq[2]]) = Pawn

=============================================================================
